---- MODULE Spec2Model ----
(***************************************************************************)
(* Complex base numeral systems (app.py): the numeral engine               *)
(* (generate_roots_of_unity, to_base, from_repr, draw) and the Streamlit   *)
(* script that feeds it from the sidebar widgets and st.session_state.     *)
(*                                                                         *)
(* Complex numbers are Gaussian integers [re, im]; on these Python's       *)
(* complex arithmetic is exact, so rounding is not part of the model.      *)
(* A Python str is a sequence of one-character strings.                    *)
(***************************************************************************)
EXTENDS Integers, Sequences, FiniteSets, TLC

VARIABLES
    fn,             \* the function of the engine that is called
    args,           \* its arguments
    out,            \* its outcome
    session_state,  \* st.session_state, kept between runs of the script
    run             \* what the last run of the script did

vars == <<fn, args, out, session_state, run>>

\* ------------------------------------------------------------------ bounds
\* to_base is called with num in 0..MaxNum and base in 0..MaxBase
MaxNum == 150
MaxBase == 12
\* generate_roots_of_unity is called with n in -MaxRoots..MaxRoots
MaxRoots == 6
\* from_repr is called with digit strings of length 0..MaxLen
MaxLen == 3
\* draw is called with identity symbol tables of size 0..MaxLevel and with
\* num_points in 0..MaxPoints
MaxLevel == 11
MaxPoints == 12
\* from_repr is called with symbol tables of size 0..MaxTable
MaxTable == 2
\* the script is run with num_points in MinPoints..MinPoints + ExtraPoints
ExtraPoints == 1

\* ------------------------------------------------- outcomes of a call
Return(v) == [kind |-> "return", value |-> v]
Raise(e) == [kind |-> "raise", value |-> e]
\* the call never comes back: its loop condition stays true for ever
Hang == [kind |-> "hang", value |-> "never returns"]

\* ------------------------------------------------- complex arithmetic
C(a, b) == [re |-> a, im |-> b]

cadd(x, y) == C(x.re + y.re, x.im + y.im)

cmul(x, y) == C(x.re * y.re - x.im * y.im, x.re * y.im + x.im * y.re)

\* pow(radix, index) for an int index >= 0; pow(z, 0) is 1 for every z
RECURSIVE cpow(_, _)
cpow(radix, index) ==
    IF index = 0 THEN C(1, 0) ELSE cmul(cpow(radix, index - 1), radix)

\* ------------------------------------------------- str and int
DigitChars == <<"0", "1", "2", "3", "4", "5", "6", "7", "8", "9">>

\* str(n) of an int n >= 0: its decimal digits
RECURSIVE str(_)
str(n) ==
    IF n < 10 THEN <<DigitChars[n + 1]>>
    ELSE str(n \div 10) \o <<DigitChars[(n % 10) + 1]>>

\* int(ch) of one decimal digit character
int(ch) == CHOOSE d \in 0..9 : DigitChars[d + 1] = ch

\* s[::-1]
Reverse(s) == [i \in 1..Len(s) |-> s[Len(s) + 1 - i]]

\* ------------------------------------------------- generate_roots_of_unity
\* cmath.exp(2j * pi * k / n): a Gaussian integer when the angle is a
\* multiple of a quarter turn, and otherwise kept as the pair (cos, sin) of
\* the angle 2 pi k / n
cexp_2pi(k, n) ==
    IF (4 * k) % n = 0
    THEN CASE ((4 * k) \div n) % 4 = 0 -> C(1, 0)
           [] ((4 * k) \div n) % 4 = 1 -> C(0, 1)
           [] ((4 * k) \div n) % 4 = 2 -> C(-1, 0)
           [] ((4 * k) \div n) % 4 = 3 -> C(0, -1)
    ELSE C(<<"cos", k, n>>, <<"sin", k, n>>)

\* a faulty variant of generate_roots_of_unity: the roots run over range(1, n)
generate_roots_of_unity_short(n) ==
    IF n > 0
    THEN Return(<<C(0, 0)>> \o [k \in 1..(n - 1) |-> cexp_2pi(k, n)])
    ELSE Return(<<C(0, 0)>>)

generate_roots_of_unity(n) ==
    IF n > 0
    THEN Return(<<C(0, 0)>> \o [k \in 1..n |-> cexp_2pi(k, n)])
    ELSE Return(<<C(0, 0)>>)

\* ------------------------------------------------- to_base
\* a faulty variant of the loop: the remainder is appended, not prepended
RECURSIVE to_base_while_append(_, _, _)
to_base_while_append(num, base, rep) ==
    IF ~(num > 0) THEN Return(rep)
    ELSE IF base = 0 THEN Raise("ZeroDivisionError")
    ELSE IF num \div base = num THEN Hang
    ELSE to_base_while_append(num \div base, base, rep \o str(num % base))

\* a faulty variant of the loop: it stops one digit early (while num >= base)
RECURSIVE to_base_while_early(_, _, _)
to_base_while_early(num, base, rep) ==
    IF ~(num >= base) THEN Return(rep)
    ELSE IF base = 0 THEN Raise("ZeroDivisionError")
    ELSE IF num \div base = num THEN Hang
    ELSE to_base_while_early(num \div base, base, str(num % base) \o rep)

\* the while loop of to_base, entered with the current num and rep; num % 0
\* raises, and when num // base = num > 0 (base 1) every iteration finds the
\* loop condition true again
RECURSIVE to_base_while(_, _, _)
to_base_while(num, base, rep) ==
    IF ~(num > 0) THEN Return(rep)
    ELSE IF base = 0 THEN Raise("ZeroDivisionError")
    ELSE IF num \div base = num THEN Hang
    ELSE to_base_while(num \div base, base, str(num % base) \o rep)

to_base(num, base) ==
    IF num = 0 THEN Return(<<"0">>) ELSE to_base_while(num, base, <<>>)

\* ------------------------------------------------- from_repr
\* a faulty variant of getitem: an index past the end reads the last entry
getitem_clamp(symbols, i) ==
    IF Len(symbols) = 0 THEN Raise("IndexError")
    ELSE IF i >= Len(symbols) THEN Return(symbols[Len(symbols)])
    ELSE Return(symbols[i + 1])

\* symbols[i] for an int i >= 0
getitem(symbols, i) ==
    IF i >= Len(symbols) THEN Raise("IndexError") ELSE Return(symbols[i + 1])

\* the for loop of from_repr over enumerate(rs), from the given index on
RECURSIVE from_repr_for(_, _, _, _, _)
from_repr_for(rs, index, result, radix, symbols) ==
    IF index >= Len(rs) THEN Return(result)
    ELSE LET item == getitem(symbols, int(rs[index + 1]))
         IN  IF item.kind # "return" THEN item
             ELSE from_repr_for(rs, index + 1,
                                cadd(result, cmul(item.value, cpow(radix, index))),
                                radix, symbols)

\* a faulty variant of from_repr: the string is not reversed
from_repr_forward(s, radix, symbols) ==
    from_repr_for(s, 0, C(0, 0), radix, symbols)

from_repr(s, radix, symbols) ==
    from_repr_for(Reverse(s), 0, C(0, 0), radix, symbols)

\* ------------------------------------------------- draw
\* the first outcome of a list that is not a return, if any
FirstFailure(outs) ==
    LET bad == {i \in 1..Len(outs) : outs[i].kind # "return"}
    IN  IF bad = {} THEN Return("none")
        ELSE outs[CHOOSE i \in bad : \A j \in bad : i <= j]

\* max(lengths) of a non-empty list
max(lengths) ==
    CHOOSE m \in {lengths[i] : i \in 1..Len(lengths)} :
        \A i \in 1..Len(lengths) : lengths[i] <= m

\* the float length / max_length, kept as the fraction
Div(a, b) == [num |-> a, den |-> b]

\* a faulty variant of normalize: the lengths are divided by the first length
normalize_first(lengths) ==
    [i \in 1..Len(lengths) |-> Div(lengths[i], lengths[1])]

\* max_length and normalized_lengths of draw
normalize(lengths) ==
    LET max_length == max(lengths)
    IN  [i \in 1..Len(lengths) |-> Div(lengths[i], max_length)]

\* draw's computation: the series (complex_numbers, normalized_lengths), or
\* the exception that ends it, or no end at all
draw(symbols, radix, num_points) ==
    LET level == Len(symbols)
        reps == [i \in 1..num_points |-> to_base(i - 1, level)]
    IN  IF FirstFailure(reps).kind # "return" THEN FirstFailure(reps)
        ELSE IF num_points = 0 THEN Raise("ValueError")
        ELSE LET lengths == [i \in 1..num_points |-> Len(reps[i].value)]
                 points == [i \in 1..num_points |->
                               from_repr(reps[i].value, radix, symbols)]
             IN  IF FirstFailure(points).kind # "return"
                 THEN FirstFailure(points)
                 ELSE Return([level |-> level,
                              lengths |-> lengths,
                              complex_numbers |->
                                  [i \in 1..num_points |-> points[i].value],
                              normalized_lengths |-> normalize(lengths)])

\* ------------------------------------------------- the Streamlit script
\* the slider "Number of Points": its least and its initial value
MinPoints == 16
DefaultPoints == 512
\* the slider "Radix Angle Degrees"
AngleMin == 0
AngleMax == 360
\* the defaults of the two session values read with get
DefaultAbs == 2
DefaultAngle == 90

\* text.strip(): the text without its leading and trailing blanks
RECURSIVE lstrip(_)
lstrip(text) ==
    IF Len(text) > 0 /\ text[1] = " " THEN lstrip(Tail(text)) ELSE text

strip(text) == Reverse(lstrip(Reverse(lstrip(text))))

\* text.split(","), the part in progress being cur
RECURSIVE split_from(_, _)
split_from(text, cur) ==
    IF Len(text) = 0 THEN <<cur>>
    ELSE IF text[1] = "," THEN <<cur>> \o split_from(Tail(text), <<>>)
    ELSE split_from(Tail(text), Append(cur, text[1]))

split(text) == split_from(text, <<>>)

IsDigit(ch) == \E d \in 1..Len(DigitChars) : DigitChars[d] = ch

\* the first position from i on that holds no digit
RECURSIVE DigitsEnd(_, _)
DigitsEnd(t, i) ==
    IF i <= Len(t) /\ IsDigit(t[i]) THEN DigitsEnd(t, i + 1) ELSE i

\* the decimal number written at positions i..j-1
RECURSIVE Number(_, _, _)
Number(t, i, j) ==
    IF j <= i THEN 0 ELSE 10 * Number(t, i, j - 1) + int(t[j - 1])

SignOf(ch) == IF ch = "-" THEN -1 ELSE 1

\* complex(text) of a str, for literals written with integers: "a", "bj",
\* "a+bj", "a-bj" with optional signs, b optional, blanks around only
complex(text) ==
    LET t == strip(text)
        n == Len(t)
        signed == n >= 1 /\ t[1] \in {"+", "-"}
        s1 == IF signed THEN 2 ELSE 1
        sg1 == IF signed THEN SignOf(t[1]) ELSE 1
        e1 == DigitsEnd(t, s1)
        v1 == sg1 * Number(t, s1, e1)
    IN  IF n = 0 THEN Raise("ValueError")
        ELSE IF e1 = n + 1
             THEN IF e1 > s1 THEN Return(C(v1, 0)) ELSE Raise("ValueError")
        ELSE IF t[e1] = "j"
             THEN IF e1 = n
                  THEN Return(C(0, IF e1 > s1 THEN v1 ELSE sg1))
                  ELSE Raise("ValueError")
        ELSE IF t[e1] \in {"+", "-"} /\ e1 > s1
             THEN LET s2 == e1 + 1
                      e2 == DigitsEnd(t, s2)
                      v2 == SignOf(t[e1]) * (IF e2 > s2 THEN Number(t, s2, e2) ELSE 1)
                  IN  IF e2 = n /\ t[n] = "j"
                      THEN Return(C(v1, v2))
                      ELSE Raise("ValueError")
        ELSE Raise("ValueError")

\* [complex(s.strip()) for s in symbols_input.split(",")]
parse_symbols(symbols_input) ==
    LET parts == split(symbols_input)
        vals == [i \in 1..Len(parts) |-> complex(strip(parts[i]))]
    IN  IF FirstFailure(vals).kind # "return" THEN FirstFailure(vals)
        ELSE Return([i \in 1..Len(parts) |-> vals[i].value])

\* Angles in radians are whole multiples of pi / 4, kept as the multiple;
\* absolute values are square roots of integers, kept as the integer.
Sqrt(n) == [sqrt_of |-> n]

\* math.atan2(z.imag, z.real) of a z on an axis or a diagonal
atan2(z) ==
    CASE z.im = 0 /\ z.re >= 0 -> 0
      [] z.im = 0 /\ z.re < 0 -> 4
      [] z.re = 0 /\ z.im > 0 -> 2
      [] z.re = 0 /\ z.im < 0 -> -2
      [] z.re = z.im /\ z.re > 0 -> 1
      [] z.re = z.im /\ z.re < 0 -> -3
      [] z.re = -z.im /\ z.re < 0 -> 3
      [] z.re = -z.im /\ z.re > 0 -> -1

\* cmath.polar(z)
polar(z) == <<Sqrt(z.re * z.re + z.im * z.im), atan2(z)>>

\* np.degrees(angle_rad)
degrees(angle_rad) == 45 * angle_rad

\* abs * cmath.exp(1j * np.radians(angle_degrees)) of an angle on an axis
polar_radix(abs, angle_degrees) ==
    cmul(C(abs, 0), cexp_2pi(angle_degrees, 360))

\* st.session_state.get(key, default) and st.session_state[key] = value
get(ss, key, default) == IF key \in DOMAIN ss THEN ss[key] ELSE default

put(ss, key, value) ==
    [k \in DOMAIN ss \cup {key} |-> IF k = key THEN value ELSE ss[k]]

\* the radix the script holds when it reaches the draw call
Bound(z) == [bound |-> TRUE, value |-> z]
Unbound == [bound |-> FALSE, value |-> C(0, 0)]

\* how the run goes on after the widgets: the session state, the symbols and
\* the radix it holds, whether it rejected a text, and whether it has
\* already ended with an exception
Going(ss, radix, rejected) ==
    [session |-> ss, radix |-> radix, rejected |-> rejected, ended |-> "no"]
Ended(ss, e, rejected) ==
    [session |-> ss, radix |-> Unbound, rejected |-> rejected, ended |-> e]

\* lines 167-180: the Manual radix branch
manual_radix(ss, radix_input) ==
    LET z == complex(radix_input)
    IN  IF z.kind = "return"
        THEN Going(put(put(put(ss, "radix_manual", radix_input),
                           "radix_abs", polar(z.value)[1]),
                       "radix_angle_degrees", degrees(polar(z.value)[2])),
                   Bound(z.value), FALSE)
        ELSE Going(ss, Unbound, TRUE)

\* lines 181-199: the Absolute & Angle branch; the slider refuses a value
\* outside min_value..max_value (int() of the stored angle changes nothing,
\* the stored angles being whole degrees)
abs_angle_radix(ss, abs, angle) ==
    LET ss1 == put(ss, "radix_abs", Sqrt(abs * abs))
        value == get(ss1, "radix_angle_degrees", DefaultAngle)
    IN  IF value < AngleMin \/ value > AngleMax
        THEN Ended(ss1, "StreamlitAPIException", FALSE)
        ELSE Going(put(ss1, "radix_angle_degrees", angle),
                   Bound(polar_radix(abs, angle)), FALSE)

\* lines 142-158: the symbols of the run
script_symbols(in) ==
    IF in.input_mode = "Roots of Unity"
    THEN generate_roots_of_unity(in.n_roots)
    ELSE parse_symbols(in.symbols_input)

\* lines 222-224: the draw call, and what the run leaves behind
script_draw(symbols, w, num_points) ==
    LET d == IF w.ended # "no" THEN Raise(w.ended)
             ELSE IF ~w.radix.bound THEN Raise("NameError")
             ELSE draw(symbols, w.radix.value, num_points)
    IN  [outcome |-> IF d.kind = "return" THEN "drawn" ELSE d.kind,
         exception |-> IF d.kind = "raise" THEN d.value ELSE "none",
         rejected |-> w.rejected,
         symbols |-> symbols,
         radix |-> w.radix]

\* one run of the script on the widget values in: the new session state and
\* the record of the run
script(ss, in) ==
    LET sym == script_symbols(in)
    IN  IF sym.kind # "return"
        THEN [session |-> ss,
              run |-> [outcome |-> "raise", exception |-> sym.value,
                       rejected |-> TRUE, symbols |-> <<>>, radix |-> Unbound]]
        ELSE LET w == IF in.radix_mode = "Manual"
                      THEN manual_radix(ss, in.radix_input)
                      ELSE abs_angle_radix(ss, in.radix_abs, in.radix_angle)
             IN  [session |-> w.session,
                  run |-> script_draw(sym.value, w, in.num_points)]

\* ------------------------------------------------- calls of the engine
\* the symbol table [0, 1, ..., level - 1]
IdTable(level) == [d \in 1..level |-> C(d - 1, 0)]

\* sequences over S of length 0..n
RECURSIVE SeqsUpTo(_, _)
SeqsUpTo(S, n) ==
    IF n = 0 THEN {<<>>}
    ELSE SeqsUpTo(S, n - 1) \cup
         {Append(q, x) : q \in {p \in SeqsUpTo(S, n - 1) : Len(p) = n - 1}, x \in S}

DigitStrings == SeqsUpTo({"0", "1", "2"}, MaxLen)

SymbolValues == {C(0, 0), C(1, 0), C(0, 1), C(2, -1)}

Radixes == {C(a, b) : a \in -1..1, b \in -1..1} \cup {C(2, 0)}

DrawSymbols ==
    {IdTable(l) : l \in 0..MaxLevel} \cup
    {<<C(1, 0)>>, <<C(0, 0), C(0, 1)>>, <<C(0, 0), C(1, 0), C(-1, 0)>>}

DrawRadixes ==
    {C(l, 0) : l \in 0..MaxLevel} \cup {C(-1, 1), C(1, 1), C(0, 1)}

\* the engine's functions are pure: a behaviour is one call, whose
\* arguments the initial state draws and whose outcome one step computes
Pending == [kind |-> "pending", value |-> "not yet run"]

Calls ==
    [fn : {"generate_roots_of_unity"}, args : [n : (-MaxRoots)..MaxRoots]]
    \cup [fn : {"to_base"}, args : [num : 0..MaxNum, base : 0..MaxBase]]
    \cup [fn : {"from_repr"},
          args : [s : DigitStrings, radix : Radixes,
                  symbols : SeqsUpTo(SymbolValues, MaxTable)]]
    \cup [fn : {"draw"},
          args : [symbols : DrawSymbols, radix : DrawRadixes,
                  num_points : 0..MaxPoints]]

\* st.session_state before the script has run, and the run record then
EmptySession == [k \in {} |-> 0]

NoRun ==
    [outcome |-> "none", exception |-> "none", rejected |-> FALSE,
     symbols |-> <<>>, radix |-> Unbound]

Init ==
    \E c \in Calls :
        /\ fn = c.fn
        /\ args = c.args
        /\ out = Pending
        /\ session_state = EmptySession
        /\ run = NoRun

call_generate_roots_of_unity ==
    /\ fn = "generate_roots_of_unity" /\ out = Pending
    /\ out' = generate_roots_of_unity(args.n)
    /\ UNCHANGED <<fn, args, session_state, run>>

call_to_base ==
    /\ fn = "to_base" /\ out = Pending
    /\ out' = to_base(args.num, args.base)
    /\ UNCHANGED <<fn, args, session_state, run>>

call_from_repr ==
    /\ fn = "from_repr" /\ out = Pending
    /\ out' = from_repr(args.s, args.radix, args.symbols)
    /\ UNCHANGED <<fn, args, session_state, run>>

call_draw ==
    /\ fn = "draw" /\ out = Pending
    /\ out' = draw(args.symbols, args.radix, args.num_points)
    /\ UNCHANGED <<fn, args, session_state, run>>

Next ==
    \/ call_generate_roots_of_unity
    \/ call_to_base
    \/ call_from_repr
    \/ call_draw

Spec == Init /\ [][Next]_vars

\* ------------------------------------------------- runs of the script
\* the texts typed into the two text inputs
SymbolTexts ==
    {<<"0", ",", " ", "1">>,            \* "0, 1", the initial text
     <<"0", ",", "j", ",", "-", "1">>,  \* "0,j,-1"
     <<"0">>,                           \* "0"
     <<"0", ",", " ", "x">>,            \* "0, x"
     <<"0", ",", "1", ",">>}            \* "0,1,"

RadixTexts ==
    {<<"1", "+", "j">>,                 \* "1+j", the initial text
     <<"2">>,                           \* "2"
     <<"1", "-", "1", "j">>,            \* "1-1j"
     <<"-", "1">>,                      \* "-1"
     <<" ", "-", "j">>,                 \* " -j"
     <<"1", "+">>,                      \* "1+"
     <<>>}                              \* ""

\* the values given to the other widgets: roots and angles on the axes, so
\* that symbols and radix are Gaussian integers
RootsChoices == {1, 4}
AbsChoices == {1, 2}
AngleChoices == {AngleMin, 90, 270, AngleMax}

\* the widget values of the first run
DefaultWidgets ==
    [input_mode |-> "Manual", n_roots |-> 1,
     symbols_input |-> <<"0", ",", " ", "1">>,
     radix_mode |-> "Manual", radix_input |-> <<"1", "+", "j">>,
     radix_abs |-> DefaultAbs, radix_angle |-> DefaultAngle,
     num_points |-> DefaultPoints]

\* the widget values a later run may find; a widget the run does not show
\* keeps its initial value
SymbolWidgets ==
    [input_mode : {"Manual"}, n_roots : {1}, symbols_input : SymbolTexts]
    \cup [input_mode : {"Roots of Unity"}, n_roots : RootsChoices,
          symbols_input : {DefaultWidgets.symbols_input}]

RadixWidgets ==
    [radix_mode : {"Manual"}, radix_input : RadixTexts,
     radix_abs : {DefaultAbs}, radix_angle : {DefaultAngle}]
    \cup [radix_mode : {"Absolute & Angle"},
          radix_input : {DefaultWidgets.radix_input},
          radix_abs : AbsChoices, radix_angle : AngleChoices]

Widgets(s, r, n) ==
    [input_mode |-> s.input_mode, n_roots |-> s.n_roots,
     symbols_input |-> s.symbols_input,
     radix_mode |-> r.radix_mode, radix_input |-> r.radix_input,
     radix_abs |-> r.radix_abs, radix_angle |-> r.radix_angle,
     num_points |-> n]

\* the state after the first run of the script, on the initial widget values
InitUI ==
    /\ fn = "none"
    /\ args = <<>>
    /\ out = Pending
    /\ LET done == script(EmptySession, DefaultWidgets)
       IN  /\ session_state = done.session
           /\ run = done.run

\* the user changes widgets and the script runs again from the top
rerun ==
    \E s \in SymbolWidgets, r \in RadixWidgets,
       n \in MinPoints..(MinPoints + ExtraPoints) :
        LET done == script(session_state, Widgets(s, r, n))
        IN  /\ session_state' = done.session
            /\ run' = done.run
            /\ UNCHANGED <<fn, args, out>>

NextUI == rerun

SpecUI == InitUI /\ [][NextUI]_vars

\* ------------------------------------------------- properties of the engine
Returned(f) == fn = f /\ out.kind = "return"

Failed(e) == out.kind = "raise" /\ out.value = e

\* the identity setting of a draw call: S = [0, ..., level-1], radix = level,
\* and at least one point
IdentityDraw ==
    /\ fn = "draw" /\ out # Pending /\ args.num_points >= 1
    /\ args.symbols = IdTable(Len(args.symbols))
    /\ args.radix = C(Len(args.symbols), 0)

\* every point of the series is its own index
PointsAreIndices ==
    /\ out.kind = "return"
    /\ \A i \in 1..args.num_points :
           out.value.complex_numbers[i] = C(i - 1, 0)

\* C1, as stated: for every level >= 2, with S = [0, ..., level-1] and
\* radix = level, from_repr(to_base(num, level), level, S) = num for every
\* num below the point count.
C1_RoundTripAnyLevel ==
    (IdentityDraw /\ Len(args.symbols) >= 2) => PointsAreIndices

\* C1, amended: the round trip holds for every level from 2 to 10, the
\* levels whose digits are single decimal characters.
C1_RoundTripDecimalLevels ==
    (IdentityDraw /\ Len(args.symbols) >= 2
                  /\ Len(args.symbols) <= Len(DigitChars)) => PointsAreIndices

C1_Witness ==
    /\ IdentityDraw /\ PointsAreIndices
    /\ Len(args.symbols) = Len(DigitChars)
    /\ args.num_points > Len(DigitChars)

\* C2: to_base(num, base) with base = 0 or base = 1 fails with
\* InvalidArgument for every num >= 0: it never hangs and never returns a
\* digit string.
C2_SmallBaseIsRejected ==
    (fn = "to_base" /\ out # Pending /\ args.base < 2)
        => Failed("InvalidArgument")

\* min(acc * b^k, cap) for b >= 2, so that comparing a number below cap with
\* b^k never leaves the small integers
RECURSIVE PowerFrom(_, _, _, _)
PowerFrom(acc, b, k, cap) ==
    IF acc >= cap THEN cap
    ELSE IF k = 0 THEN acc
    ELSE PowerFrom(acc * b, b, k - 1, cap)

PowerUpTo(b, k, cap) == PowerFrom(1, b, k, cap)

\* the length is k exactly when level^(k-1) <= num < level^k
LengthIsLogarithmic ==
    /\ out.kind = "return"
    /\ \A k \in 1..(args.num + 1) :
           (Len(out.value) = k) <=>
               /\ PowerUpTo(args.base, k - 1, args.num + 1) <= args.num
               /\ args.num < PowerUpTo(args.base, k, args.num + 1)

ZeroIsOneDigit ==
    (args.num = 0) => (out.kind = "return" /\ out.value = <<"0">>)

\* C3, as stated: for every level >= 2 and num >= 1 the length of
\* to_base(num, level) is k exactly when level^(k-1) <= num < level^k, and
\* to_base(0, level) is "0" whatever the level.
C3_LengthAnyLevel ==
    (fn = "to_base" /\ out # Pending) =>
        /\ ZeroIsOneDigit
        /\ (args.base >= 2 /\ args.num >= 1) => LengthIsLogarithmic

\* C3, amended: the length law holds for every level from 2 to 10, and
\* to_base(0, level) is "0" whatever the level.
C3_LengthDecimalLevels ==
    (fn = "to_base" /\ out # Pending) =>
        /\ ZeroIsOneDigit
        /\ (args.base >= 2 /\ args.base <= Len(DigitChars) /\ args.num >= 1)
               => LengthIsLogarithmic

C3_Witness ==
    /\ Returned("to_base")
    /\ args.base = Len(DigitChars) /\ args.num >= 100
    /\ Len(out.value) = 3

\* C4: a series drawn from a symbol table of size >= 2 with N >= 1 points has
\* every weight length_i / max_length in [0, 1], and an entry with the
\* longest digit string has weight exactly 1.
C4_WeightBounds ==
    (fn = "draw" /\ out # Pending /\ Len(args.symbols) >= 2
                 /\ args.num_points >= 1) =>
        /\ out.kind = "return"
        /\ \A i \in 1..args.num_points :
               LET w == out.value.normalized_lengths[i]
               IN  /\ w.num = out.value.lengths[i]
                   /\ w.den > 0 /\ 0 <= w.num /\ w.num <= w.den
        /\ \E i \in 1..args.num_points :
               /\ out.value.normalized_lengths[i].num
                      = out.value.normalized_lengths[i].den
               /\ \A j \in 1..args.num_points :
                      out.value.lengths[j] <= out.value.lengths[i]

C4_Witness ==
    /\ Returned("draw")
    /\ Len(args.symbols) >= 2
    /\ \E i, j \in 1..args.num_points :
           /\ out.value.normalized_lengths[i].num
                  < out.value.normalized_lengths[i].den
           /\ out.value.normalized_lengths[j].num
                  = out.value.normalized_lengths[j].den

\* z^k with z^0 = 1
RECURSIVE Power(_, _)
Power(z, k) == IF k = 0 THEN C(1, 0) ELSE cmul(z, Power(z, k - 1))

\* the sum over j = k..L-1 of S[digit_j] * r^j, digit_0 the rightmost character
RECURSIVE PolySum(_, _, _, _)
PolySum(s, r, S, k) ==
    IF k >= Len(s) THEN C(0, 0)
    ELSE cadd(cmul(S[int(s[Len(s) - k]) + 1], Power(r, k)), PolySum(s, r, S, k + 1))

DigitsInRange == \A i \in 1..Len(args.s) : int(args.s[i]) < Len(args.symbols)

\* C5: from_repr(s, r, S) is the sum over k of S[digit_k] * r^k, digit_0 the
\* rightmost character of s, with r^0 = 1 also for r = 0: a one-digit string
\* d evaluates to S[d] for every radix.
C5_PolynomialValue ==
    (fn = "from_repr" /\ out # Pending /\ DigitsInRange) =>
        /\ out.kind = "return"
        /\ out.value = PolySum(args.s, args.radix, args.symbols, 0)
        /\ (Len(args.s) = 1) => out.value = args.symbols[int(args.s[1]) + 1]

C5_Witness ==
    /\ Returned("from_repr") /\ DigitsInRange
    /\ Len(args.s) = 3 /\ args.s[1] # args.s[3]
    /\ args.radix = C(-1, 1)
    /\ out.value # C(0, 0)

C5_WitnessZeroRadix ==
    /\ Returned("from_repr") /\ DigitsInRange
    /\ Len(args.s) = 1 /\ args.radix = C(0, 0)
    /\ out.value # C(0, 0)

\* C7: draw checks len(symbols) >= 2 before any call of to_base: with a
\* symbol table of size 0 or 1 (and N >= 1 points) it fails with
\* InvalidArgument, and neither hangs nor returns a series.
C7_SmallTableIsRejected ==
    (fn = "draw" /\ out # Pending /\ Len(args.symbols) < 2
                 /\ args.num_points >= 1)
        => Failed("InvalidArgument")

RootsTable ==
    /\ out.kind = "return"
    /\ Len(out.value) = args.n + 1
    /\ out.value[1] = C(0, 0)

C9_IndexError ==
    (fn = "from_repr" /\ out # Pending) =>
        /\ (~DigitsInRange) => Failed("IndexError")
        /\ DigitsInRange => out.kind = "return"

C9_Witness ==
    /\ fn = "from_repr" /\ Failed("IndexError")
    /\ Len(args.s) = 3 /\ Len(args.symbols) = 2
    /\ int(args.s[3]) < 2 /\ int(args.s[2]) < 2 /\ int(args.s[1]) >= 2

\* ------------------------------------------------- properties of the script
\* C6: a run that rejects a malformed text (a radix or a symbol that is no
\* complex literal) leaves radix_manual, radix_abs and radix_angle_degrees
\* as they were and still draws the visualization, without an exception.
C6_RejectedEditStillDraws ==
    [][run'.rejected =>
          (session_state' = session_state /\ run'.outcome = "drawn")]_vars

\* what holds of a rejected text: the session state is left as it was
RejectedEditKeepsSession ==
    [][run'.rejected => session_state' = session_state]_vars

\* C10: after any runs that mix Manual radix edits with Absolute & Angle
\* edits, radix_angle_degrees lies within the angle slider's range 0..360.
C10_AngleInSliderRange ==
    "radix_angle_degrees" \in DOMAIN session_state =>
        /\ session_state["radix_angle_degrees"] >= AngleMin
        /\ session_state["radix_angle_degrees"] <= AngleMax
====
